---- MODULE Spec2Model ----
(***************************************************************************)
(* A model of genericsql.py: the Sublime Text window command sql_exec      *)
(* (SqlExecCommand), its statement scan, its per-view settings, the output *)
(* view it reuses, the temp files it writes and the shell_command task it  *)
(* schedules on the editor's async thread.                                 *)
(*                                                                         *)
(* Strings the code scans character by character (view text) are sequences *)
(* of one-character strings.  A command-line argument is a sequence of the *)
(* string pieces the code concatenates into it, so "-f" + file_name is     *)
(* <<"-f", file_name>>.  A value the code keeps optionally is a sequence   *)
(* of length 0 or 1.                                                       *)
(***************************************************************************)
EXTENDS Integers, Sequences, FiniteSets, TLC

VARIABLES
    text,           \* view -> the characters of a source view's buffer
    saved_as,       \* view -> the file the buffer was saved as, if it ever was
    sel,            \* view -> <<a, b>>, the single region of view.sel()
    settings,       \* view -> the keys cmd, dialect, sqlscope of view.settings()
    active,         \* window.active_view(): a source view, or an output view's name
    overlay,        \* the Command Palette overlay is showing
    views,          \* the output views of the window, in creation order
    output_view,    \* self.output_view: an index of views, 0 while the attribute is unset
    shell_process,  \* self.shell_process: -1 attribute unset, 0 None, else the execution's Popen
    execs,          \* callbacks handed to set_timeout_async and not yet finished, oldest first
    procs,          \* child processes that are running
    tempfiles,      \* files made by tempfile.mkstemp that exist on disk, and whether closed
    nexec,          \* number of executions dispatched so far
    prev,           \* history: view -> the cmd and dialect of its latest execution since a reset
    called          \* history: the run_file call made by the step just taken, if any

vars == <<text, saved_as, sel, settings, active, overlay, views, output_view, shell_process,
          execs, procs, tempfiles, nexec, prev, called>>

(***************************************************************************)
(* Bounds of the model.                                                    *)
(***************************************************************************)
MaxExecs == 2
MaxLen == 4

None == "None"
NL == "\n"

\* The source view of the window; the other views are the output views.
SourceViews == {"v1"}

\* view.file_name(): None for a buffer that was never saved.
file_name(v) == saved_as[v]

\* The text of the source views in the window model.
MainText == <<"s", NL, NL, "t">>

\* Regions the user puts the selection at in the window model.
UserRegions == {<<4, 4>>, <<3, 4>>}

Dialects == {"oracle", "postgres", "mysql"}

\* The build variants: a dialect and its cmd list (one piece per argument).
VariantCmd(d) ==
    CASE d = "oracle"   -> << <<"sqlplus">>, <<"-s">>, <<"user/password@host:port/db">> >>
      [] d = "postgres" -> << <<"psql">>, <<"conninfo">> >>
      [] d = "mysql"    -> << <<"mysql">>, <<"-B">> >>
      [] OTHER          -> << <<"sh">> >>

kwargs(kill, sqlscope, action, cmd, dialect) ==
    [kill |-> kill, sqlscope |-> sqlscope, action |-> action, cmd |-> cmd, dialect |-> dialect]

\* ctrl+f7 / ctrl+f8
KillKey == kwargs(TRUE, "", "", <<>>, "")
\* f7 / ctrl+b with the build system's own cmd "", shift+f7, f8, ctrl+shift+f8, shift+f8
KeyBindings ==
    { kwargs(FALSE, "", "", <<>>, ""),
      kwargs(FALSE, "file", "reset", <<>>, ""),
      kwargs(FALSE, "statement", "", <<>>, ""),
      kwargs(FALSE, "statement", "explain", <<>>, ""),
      kwargs(FALSE, "statement", "reset", <<>>, "") }
\* a build variant chosen in the Command Palette
Variants == { kwargs(FALSE, "", "", VariantCmd(d), d) : d \in Dialects }

Max(S) == CHOOSE x \in S : \A y \in S : y <= x
Min(S) == CHOOSE x \in S : \A y \in S : x <= y

(***************************************************************************)
(* The statement scan.                                                     *)
(***************************************************************************)
\* view.substr(sublime.Region(a, b)): the region is clipped to the buffer.
substr(t, a, b) == SubSeq(t, Max({a, 0}) + 1, Min({b, Len(t)}))

RECURSIVE preceding_from(_, _)
preceding_from(t, i) ==
    IF i > 0
    THEN IF substr(t, i, i + 2) = <<NL, NL>> THEN i + 2 ELSE preceding_from(t, i - 1)
    ELSE 0

find_preceding_newline(t, region) == preceding_from(t, region[1] - 2)

RECURSIVE next_from(_, _)
next_from(t, i) ==
    IF i < Len(t)
    THEN IF substr(t, i, i + 2) = <<NL, NL>> THEN i ELSE next_from(t, i + 1)
    ELSE Len(t)

find_next_newline(t, region) == next_from(t, region[1] - 1)

\* The region select_current_statement leaves as the selection.
select_current_statement(t, region) ==
    <<find_preceding_newline(t, region), find_next_newline(t, region)>>

(***************************************************************************)
(* The output views.                                                       *)
(***************************************************************************)
view_name(fn) == IF fn = <<>> THEN "SQL Output" ELSE "SQL Output: " \o fn[1]

\* The first view of the window with that name, 0 for None.
find_output_view(vs, name) ==
    IF \E i \in 1..Len(vs) : vs[i].name = name
    THEN Min({i \in 1..Len(vs) : vs[i].name = name})
    ELSE 0

\* A clear_view that erases nothing.
clear_view_keeps(v) == v

\* clear_view: ClearViewCommand erases Region(0, size).
clear_view(v) == [v EXCEPT !.text = <<>>]

\* append_text: the text goes to whatever self.output_view is now.
append_text(vs, ov, chunks) ==
    IF ov = 0 THEN vs ELSE [vs EXCEPT ![ov].text = @ \o chunks]

chunk(id, kind) == [src |-> id, kind |-> kind]

(***************************************************************************)
(* The argument vector and the temp file.                                  *)
(***************************************************************************)
\* run_file: the element appended to cmd for the file.
file_argument(dialect, fn) ==
    CASE dialect = "oracle"   -> <<fn>>
      [] dialect = "postgres" -> <<"-f", fn>>
      [] dialect = "mysql"    -> <<"-e source ", fn>>
      [] OTHER                -> <<"<", fn>>

\* tempfile.mkstemp(suffix=".sql"): a fresh name.
mkstemp(n) == "/tmp/tmp" \o ToString(n) \o ".sql"

\* write_selection_to_handle: the text of the selected region.
write_selection_to_handle(t, region) ==
    substr(t, Min({region[1], region[2]}), Max({region[1], region[2]}))

\* What run_selection leaves in the file: the selection as it is.
selection_file(t, region) ==
    [head |-> <<>>, body |-> write_selection_to_handle(t, region), tail |-> <<>>]

\* What explain_plan leaves in the file: the selection wrapped for the dialect.
explain_file(dialect, t, region) ==
    IF dialect = "oracle"
    THEN [head |-> <<"explain plan for ">>,
          body |-> write_selection_to_handle(t, region),
          tail |-> <<"\nset heading off", "\nselect * from table(dbms_xplan.display);">>]
    ELSE [head |-> <<"explain ">>,
          body |-> write_selection_to_handle(t, region),
          tail |-> <<>>]

(***************************************************************************)
(* The initial state: a window with the two source views, nothing run yet. *)
(***************************************************************************)
NoSettings == [cmd |-> <<>>, dialect |-> "", sqlscope |-> None]
NoRun == [cmd |-> <<>>, dialect |-> ""]

Init ==
    /\ text = [v \in SourceViews |-> MainText]
    /\ saved_as \in [SourceViews -> {<<>>, <<"a.sql">>}]
    /\ sel = [v \in SourceViews |-> <<4, 4>>]
    /\ settings = [v \in SourceViews |-> NoSettings]
    /\ active \in SourceViews
    /\ overlay = FALSE
    /\ views = <<>>
    /\ output_view = 0
    /\ shell_process = -1
    /\ execs = <<>>
    /\ procs = {}
    /\ tempfiles = {}
    /\ nexec = 0
    /\ prev = [v \in SourceViews |-> NoRun]
    /\ called = <<>>

(***************************************************************************)
(* SqlExecCommand.run, with everything it calls.                           *)
(***************************************************************************)
\* What a step of run leaves in the history variable called: the invocation's
\* arguments, what it came to, and for a run_file call what it was handed.
call(kw, op, view, cmd, dialect, file, written, argv) ==
    << [kw |-> kw, op |-> op, view |-> view, cmd |-> cmd, dialect |-> dialect,
        file |-> file, written |-> written, argv |-> argv] >>

\* kill_shell: terminate the Popen self.shell_process holds, if it holds one.
kill_shell(es, sp) ==
    [i \in DOMAIN es |->
        IF sp > 0 /\ es[i].id = sp THEN [es[i] EXCEPT !.terminated = TRUE] ELSE es[i]]

\* run, lines 358-360: kill=True.
RunKill(kw) ==
    /\ execs' = kill_shell(execs, shell_process)
    /\ called' = call(kw, "kill", active, <<>>, "", <<>>, <<>>, <<>>)
    /\ UNCHANGED <<text, saved_as, sel, settings, active, overlay, views, output_view,
                   shell_process, procs, tempfiles, nexec, prev>>

\* run, lines 363-375: the settings after action and sqlscope are handled.
scope_settings(st, kw) ==
    LET st1 == IF kw.action = "reset" THEN [st EXCEPT !.cmd = <<>>] ELSE st
    IN  IF kw.sqlscope = "" THEN st1 ELSE [st1 EXCEPT !.sqlscope = kw.sqlscope]

\* run, lines 380-384: the cmd and the dialect the invocation goes on with.
resolve_cmd(st, kw) == IF kw.cmd # <<>> THEN kw.cmd ELSE st.cmd

\* A run that keeps the dialect of its arguments when it takes the saved cmd.
resolve_dialect_kwargs(st, kw) == kw.dialect

resolve_dialect(st, kw) == IF kw.cmd # <<>> THEN kw.dialect ELSE st.dialect

\* run, lines 385-387: nothing to run, show the Command Palette.
RunPalette(kw, st) ==
    /\ settings' = [settings EXCEPT ![active] = st]
    /\ overlay' = TRUE
    /\ prev' = IF kw.action = "reset" THEN [prev EXCEPT ![active] = NoRun] ELSE prev
    /\ called' = call(kw, "palette", active, <<>>, "", <<>>, <<>>, <<>>)
    /\ UNCHANGED <<text, saved_as, sel, active, views, output_view, shell_process, execs,
                   procs, tempfiles, nexec>>

\* run_command, lines 235-248 and 257-259: the views once the output view is ready.
prepare_view(vs, fn, id) ==
    LET name == view_name(fn)
        found == find_output_view(vs, name)
        vs1 == IF found = 0 THEN Append(vs, [name |-> name, text |-> <<>>]) ELSE vs
        ov == IF found = 0 THEN Len(vs1) ELSE found
        vs2 == [vs1 EXCEPT ![ov] = clear_view(@)]
    IN  IF fn = <<>> THEN vs2 ELSE append_text(vs2, ov, <<chunk(id, "filename")>>)

\* run, lines 389-418, for a cmd that is set: save it, pick what to run, run it.
RunExecute(kw, st, cmd, dialect) ==
    LET view == active
        sqlscope == st.sqlscope
        empty0 == sel[view][1] = sel[view][2]
        statement == empty0 /\ sqlscope = "statement"
        region == IF statement THEN select_current_statement(text[view], sel[view])
                  ELSE sel[view]
        empty_selection == empty0 /\ ~statement
        id == nexec + 1
        temp_file_name == mkstemp(id)
        file == IF empty_selection THEN file_name(view) ELSE <<temp_file_name>>
        written == IF empty_selection THEN <<>>
                   ELSE IF kw.action = "explain"
                        THEN <<explain_file(dialect, text[view], region)>>
                        ELSE <<selection_file(text[view], region)>>
        raises == file = <<>>
        argv == IF raises THEN <<>> ELSE Append(cmd, file_argument(dialect, file[1]))
        fn == file_name(view)
        vs == prepare_view(views, fn, id)
    IN  /\ raises \/ nexec < MaxExecs
        /\ settings' = [settings EXCEPT
                            ![view] = [cmd |-> cmd, dialect |-> dialect, sqlscope |-> None]]
        /\ sel' = [sel EXCEPT ![view] = region]
        /\ overlay' = FALSE
        /\ prev' = [prev EXCEPT ![view] = [cmd |-> cmd, dialect |-> dialect]]
        /\ called' = call(kw, "run_file", view, cmd, dialect, file, written, argv)
        /\ tempfiles' = IF empty_selection THEN tempfiles
                        ELSE tempfiles \cup {[name |-> temp_file_name, closed |-> TRUE]}
        /\ IF raises
           THEN UNCHANGED <<views, output_view, active, execs, nexec>>
           ELSE /\ views' = vs
                /\ output_view' = find_output_view(vs, view_name(fn))
                /\ active' = view_name(fn)
                /\ execs' = Append(execs, [id |-> id, argv |-> argv,
                                           view |-> find_output_view(vs, view_name(fn)),
                                           tmp |-> IF empty_selection THEN <<>>
                                                   ELSE <<temp_file_name>>,
                                           pc |-> "queued", consumed |-> FALSE,
                                           terminated |-> FALSE])
                /\ nexec' = id
        /\ UNCHANGED <<text, saved_as, shell_process, procs>>

\* One invocation of sql_exec with the arguments kw, in the active view.
Run(kw) ==
    /\ active \in SourceViews
    /\ IF kw.kill
       THEN RunKill(kw)
       ELSE LET st == scope_settings(settings[active], kw)
                cmd == resolve_cmd(st, kw)
                dialect == resolve_dialect(st, kw)
            IN  IF cmd = <<>> THEN RunPalette(kw, st) ELSE RunExecute(kw, st, cmd, dialect)

(***************************************************************************)
(* shell_command, run on the editor's async thread.  set_timeout_async     *)
(* runs its callbacks on one thread, in the order they were handed over:   *)
(* only the oldest unfinished callback takes steps.                        *)
(***************************************************************************)
\* The callback the async thread is running or will run next.
async_current(es) == 1

\* A poll loop that does not wait for the child.
child_exited_early(ps, id) == TRUE

\* Lines 180-186: communicate(timeout=0.20) returns, and the loop ends, once the
\* child has exited; until then it raises TimeoutExpired and the loop goes on.
child_exited(ps, id) == id \notin ps

\* Lines 205-215: what the OSError handlers append for each errno.
oserror_text(id, errno) ==
    IF errno = 8 THEN <<chunk(id, "error"), chunk(id, "error")>> ELSE <<chunk(id, "error")>>

\* A handler that leaves the callback scheduled, to spawn again.
after_oserror_retry(es) == es

\* Lines 205-215: after the handler the callback returns.
after_oserror(es) == Tail(es)

\* Lines 176-178: Popen succeeds.  The first poll() may already see the exit.
Spawn ==
    /\ execs # <<>>
    /\ LET i == async_current(execs) IN
        /\ execs[i].pc = "queued"
        /\ \E quick \in BOOLEAN :
              /\ execs' = [execs EXCEPT ![i].pc = IF quick THEN "remaining" ELSE "loop"]
              /\ procs' = IF quick THEN procs ELSE procs \cup {execs[i].id}
        /\ shell_process' = execs[i].id
    /\ called' = <<>>
    /\ UNCHANGED <<text, saved_as, sel, settings, active, overlay, views, output_view,
                   tempfiles, nexec, prev>>

\* Line 176 raises OSError (2: no such file, 8: exec format, 13: any other).
SpawnFails ==
    /\ execs # <<>>
    /\ LET i == async_current(execs) IN
        /\ execs[i].pc = "queued"
        /\ \E errno \in {2, 8, 13} :
              views' = append_text(views, output_view, oserror_text(execs[i].id, errno))
    /\ execs' = after_oserror(execs)
    /\ called' = <<>>
    /\ UNCHANGED <<text, saved_as, sel, settings, active, overlay, output_view, shell_process,
                   procs, tempfiles, nexec, prev>>

\* Lines 186-187: the child has exited, communicate returns its output.
LoopCommunicate ==
    /\ execs # <<>>
    /\ LET i == async_current(execs) IN
        /\ execs[i].pc = "loop"
        /\ child_exited(procs, execs[i].id)
        /\ views' = append_text(views, output_view, <<chunk(execs[i].id, "out")>>)
        /\ execs' = [execs EXCEPT ![i].pc = "remaining", ![i].consumed = TRUE]
    /\ called' = <<>>
    /\ UNCHANGED <<text, saved_as, sel, settings, active, overlay, output_view, shell_process,
                   procs, tempfiles, nexec, prev>>

\* Lines 194-200: communicate() once more; on the closed handle it raises ValueError.
Remaining ==
    /\ execs # <<>>
    /\ LET i == async_current(execs) IN
        /\ execs[i].pc = "remaining"
        /\ views' = IF execs[i].consumed THEN views
                    ELSE append_text(views, output_view, <<chunk(execs[i].id, "out")>>)
        /\ execs' = [execs EXCEPT ![i].pc = "returncode"]
    /\ called' = <<>>
    /\ UNCHANGED <<text, saved_as, sel, settings, active, overlay, output_view, shell_process,
                   procs, tempfiles, nexec, prev>>

\* Lines 201-203: the return-code line, then self.shell_process = None.
ReturnCode ==
    /\ execs # <<>>
    /\ LET i == async_current(execs) IN
        /\ execs[i].pc = "returncode"
        /\ views' = append_text(views, output_view, <<chunk(execs[i].id, "rc")>>)
    /\ execs' = Tail(execs)
    /\ shell_process' = 0
    /\ called' = <<>>
    /\ UNCHANGED <<text, saved_as, sel, settings, active, overlay, output_view,
                   procs, tempfiles, nexec, prev>>

(***************************************************************************)
(* The environment: the child process and the user.                        *)
(***************************************************************************)
\* A running child exits, of itself or on the signal terminate() sent.
ChildExits ==
    /\ \E id \in procs : procs' = procs \ {id}
    /\ called' = <<>>
    /\ UNCHANGED <<text, saved_as, sel, settings, active, overlay, views, output_view,
                   shell_process, execs, tempfiles, nexec, prev>>

\* The user saves a buffer that had no file yet.
SaveBuffer ==
    /\ ~overlay
    /\ active \in SourceViews
    /\ saved_as[active] = <<>>
    /\ saved_as' = [saved_as EXCEPT ![active] = <<"a.sql">>]
    /\ called' = <<>>
    /\ UNCHANGED <<text, sel, settings, active, overlay, views, output_view, shell_process,
                   execs, procs, tempfiles, nexec, prev>>

\* The user goes back to a source view.
Focus ==
    /\ ~overlay
    /\ \E v \in SourceViews : v # active /\ active' = v
    /\ called' = <<>>
    /\ UNCHANGED <<text, saved_as, sel, settings, overlay, views, output_view, shell_process,
                   execs, procs, tempfiles, nexec, prev>>

\* The user moves the cursor or selects text in the active source view.
Select(regions) ==
    /\ ~overlay
    /\ active \in SourceViews
    /\ \E r \in regions : r # sel[active] /\ sel' = [sel EXCEPT ![active] = r]
    /\ called' = <<>>
    /\ UNCHANGED <<text, saved_as, settings, active, overlay, views, output_view, shell_process,
                   execs, procs, tempfiles, nexec, prev>>

\* The user closes the Command Palette without choosing a variant.
Cancel ==
    /\ overlay
    /\ overlay' = FALSE
    /\ called' = <<>>
    /\ UNCHANGED <<text, saved_as, sel, settings, active, views, output_view, shell_process,
                   execs, procs, tempfiles, nexec, prev>>

\* A key binding; the keys go to the Command Palette while it is showing.
PressKey == ~overlay /\ \E kw \in KeyBindings : Run(kw)
PressKill == ~overlay /\ Run(KillKey)
\* A build variant, chosen in the Command Palette or built again.
ChooseVariant == \E kw \in Variants : Run(kw)

Next ==
    \/ PressKey
    \/ PressKill
    \/ ChooseVariant
    \/ Cancel
    \/ Focus
    \/ SaveBuffer
    \/ Select(UserRegions)
    \/ Spawn
    \/ SpawnFails
    \/ LoopCommunicate
    \/ Remaining
    \/ ReturnCode
    \/ ChildExits

Spec == Init /\ [][Next]_vars

(***************************************************************************)
(* The statement scan on its own: every buffer of at most MaxLen           *)
(* characters, blank or not, and every cursor position in it.              *)
(***************************************************************************)
Buffers == UNION {[1..n -> {NL, "x"}] : n \in 0..MaxLen}

Cursors(t) == {<<c, c>> : c \in 0..Len(t)}

ScanInit ==
    /\ text \in [SourceViews -> Buffers]
    /\ sel \in [SourceViews -> UNION {Cursors(t) : t \in Buffers}]
    /\ \A v \in SourceViews : sel[v] \in Cursors(text[v])
    /\ saved_as = [v \in SourceViews |-> <<>>]
    /\ settings = [v \in SourceViews |-> NoSettings]
    /\ active \in SourceViews
    /\ overlay = FALSE
    /\ views = <<>>
    /\ output_view = 0
    /\ shell_process = -1
    /\ execs = <<>>
    /\ procs = {}
    /\ tempfiles = {}
    /\ nexec = 0
    /\ prev = [v \in SourceViews |-> NoRun]
    /\ called = <<>>

\* select_current_statement(view), lines 145-150, on an empty selection.
SelectStatement ==
    /\ active \in SourceViews
    /\ sel[active][1] = sel[active][2]
    /\ sel' = [sel EXCEPT ![active] = select_current_statement(text[active], sel[active])]
    /\ called' = <<>>
    /\ UNCHANGED <<text, saved_as, settings, active, overlay, views, output_view,
                   shell_process, execs, procs, tempfiles, nexec, prev>>

MoveCursor == Select(Cursors(text[active]))

ScanNext == SelectStatement \/ MoveCursor

SpecScan == ScanInit /\ [][ScanNext]_vars

(***************************************************************************)
(* C1.  The statement scan.                                                *)
(***************************************************************************)
\* A blank line: two consecutive newlines at positions p and p + 1.
BlankAt(t, p) == p >= 0 /\ p + 2 <= Len(t) /\ t[p + 1] = NL /\ t[p + 2] = NL

\* The position just after the nearest blank line before the cursor, or 0.
StatementStart(t, c) ==
    LET before == {p \in 0..Len(t) : BlankAt(t, p) /\ p + 2 <= c}
    IN  IF before = {} THEN 0 ELSE Max(before) + 2

\* The position of the nearest blank line after the cursor, or the buffer size.
StatementEnd(t, c) ==
    LET after == {p \in 0..Len(t) : BlankAt(t, p) /\ p >= c}
    IN  IF after = {} THEN Len(t) ELSE Min(after)

\* C1: for every buffer and every cursor with an empty selection,
\* select_current_statement makes the selection [start, end], start just after the
\* nearest blank line before the cursor (or 0), end at the nearest blank line after
\* it (or the size), so 0 <= start <= cursor <= end <= size and the selected text
\* holds no blank line.
C1_StatementBetweenBlankLines ==
    [][SelectStatement =>
        LET t == text[active]
            c == sel[active][1]
            start == sel'[active][1]
            end == sel'[active][2]
        IN  /\ start = StatementStart(t, c)
            /\ end = StatementEnd(t, c)
            /\ 0 <= start /\ start <= c /\ c <= end /\ end <= Len(t)
            /\ \A p \in start..(end - 2) : ~BlankAt(t, p)]_vars

\* The scan has run on a buffer that holds a blank line.
C1_Scanned ==
    \E v \in SourceViews :
        /\ sel[v][1] # sel[v][2]
        /\ \E p \in 0..Len(text[v]) : BlankAt(text[v], p)

(***************************************************************************)
(* C2.  One execution at a time.                                           *)
(***************************************************************************)
\* The callbacks that have spawned a child and are polling it or reporting on it.
Polling == {i \in DOMAIN execs : execs[i].pc \in {"loop", "remaining", "returncode"}}

\* C2: after any sequence of sql_exec invocations, also a run issued while an
\* earlier child has not exited, at most one spawned child is running or being
\* polled by shell_command.
C2_OneExecutionActive ==
    /\ Cardinality(procs) <= 1
    /\ Cardinality(Polling) <= 1
    /\ Cardinality(procs \cup {execs[i].id : i \in Polling}) <= 1

\* A child is running and a later run is already waiting behind it.
C2_RunWhileChildRuns ==
    /\ Len(execs) >= 2
    /\ execs[1].pc = "loop"
    /\ execs[1].id \in procs
    /\ execs[2].pc = "queued"

(***************************************************************************)
(* C3.  Kill.                                                              *)
(***************************************************************************)
\* C3: a kill invocation made at any moment between run dispatching an execution
\* and that execution appending its return-code line calls terminate on that
\* execution's child; and it changes no view setting and starts no execution.
C3_KillTerminatesExecution ==
    [][Run(KillKey) =>
        /\ \A i \in DOMAIN execs :
              \E j \in DOMAIN execs' :
                  execs'[j].id = execs[i].id /\ execs'[j].terminated
        /\ settings' = settings
        /\ nexec' = nexec
        /\ Len(execs') = Len(execs)]_vars

\* A kill invocation has just been made while an execution was dispatched and unfinished.
C3_KilledWhileDispatched ==
    /\ called # <<>>
    /\ called[1].op = "kill"
    /\ execs # <<>>

(***************************************************************************)
(* C4.  The temp files.                                                    *)
(***************************************************************************)
\* Nothing is scheduled, running or left to report: whatever the executions
\* dispatched so far were going to do, they have done.
Quiescent == execs = <<>> /\ procs = {}

\* C4: a temp file exists, fully written and closed, before the child that uses it
\* is spawned, and it is deleted once the execution that uses it has finished, so
\* no temp file is left over when every execution has finished.
C4_TempFileLifecycle ==
    /\ \A i \in DOMAIN execs :
          execs[i].tmp # <<>> =>
              [name |-> execs[i].tmp[1], closed |-> TRUE] \in tempfiles
    /\ Quiescent => tempfiles = {}

\* An execution that used a temp file has finished.
C4_TempFileUsed == Quiescent /\ tempfiles # {}

(***************************************************************************)
(* C5.  A spawn that fails.                                                *)
(***************************************************************************)
\* C5: when Popen raises a process-not-found or any other OS error, shell_command
\* appends the error text to the output view and nothing else, spawns nothing, and
\* the callback is over: it is not run again and appends no return-code line.
C5_SpawnFailureIsTerminal ==
    [][SpawnFails =>
        LET e == execs[1] IN
        /\ output_view # 0
        /\ \E n \in 1..2 :
              views'[output_view].text =
                  views[output_view].text \o [k \in 1..n |-> chunk(e.id, "error")]
        /\ \A j \in DOMAIN views : j # output_view => views'[j] = views[j]
        /\ \A j \in DOMAIN execs' : execs'[j].id # e.id
        /\ procs' = procs
        /\ shell_process' = shell_process]_vars

\* The text of a failed spawn is in an output view.
C5_SpawnFailed ==
    \E j \in DOMAIN views :
        \E k \in DOMAIN views[j].text : views[j].text[k].kind = "error"

C7_NoScopeRunsWholeFile ==
    [][\A kw \in KeyBindings \cup Variants :
        ( /\ kw.sqlscope = ""
          /\ ~overlay
          /\ active \in SourceViews
          /\ sel[active][1] = sel[active][2]
          /\ (kw.cmd # <<>> \/ settings[active].cmd # <<>>)
          /\ Run(kw) )
        => /\ called'[1].op = "run_file"
           /\ called'[1].file = file_name(active)
           /\ called'[1].written = <<>>
           /\ tempfiles' = tempfiles
           /\ sel' = sel]_vars

\* An invocation without sqlscope has just run with an empty selection.
C7_RanWithoutScope ==
    /\ called # <<>>
    /\ called[1].op = "run_file"
    /\ called[1].kw.sqlscope = ""
    /\ called[1].written = <<>>

(***************************************************************************)
(* C8.  The argument vector.                                               *)
(***************************************************************************)
\* The arguments that give the file to the client in the dialect's documented
\* shape: @file (sqlplus), -f file (psql), -e "source file" (mysql).  An option
\* and its value may be one argument or two.
ShapeFor(dialect, fn) ==
    CASE dialect = "oracle"   -> { << <<"@", fn>> >> }
      [] dialect = "postgres" -> { << <<"-f">>, <<fn>> >>, << <<"-f", fn>> >> }
      [] dialect = "mysql"    -> { << <<"-e">>, <<"source ", fn>> >>,
                                   << <<"-e source ", fn>> >> }
      [] OTHER                -> {}

\* C8: the spawned process gets the configured cmd list followed by the file in
\* the dialect's shape; the file is the view's file for file scope and the temp
\* file for selection and statement scope.
C8_ArgumentVector ==
    (called # <<>> /\ called[1].op = "run_file" /\ called[1].argv # <<>>) =>
        LET c == called[1]
            given == SubSeq(c.argv, Len(c.cmd) + 1, Len(c.argv))
        IN  /\ SubSeq(c.argv, 1, Len(c.cmd)) = c.cmd
            /\ given \in ShapeFor(c.dialect, c.file[1])
            /\ execs[Len(execs)].argv = c.argv
            /\ IF c.written = <<>>
               THEN c.file = file_name(c.view)
               ELSE [name |-> c.file[1], closed |-> TRUE] \in tempfiles

\* An execution has just been dispatched.
C8_Dispatched == called # <<>> /\ called[1].op = "run_file" /\ called[1].argv # <<>>

(***************************************************************************)
(* C9.  The output view is reused.                                         *)
(***************************************************************************)
\* The names run_command gives an output view.
OutputNames == {view_name(<<>>), view_name(<<"a.sql">>)}

\* C9: a window never holds two output views of one name; run_command makes a new
\* view only when none has the name, and the view is empty before the Filename
\* line of the new execution goes in.
C9_OutputViewReused ==
    [][/\ \A i, j \in DOMAIN views' : views'[i].name = views'[j].name => i = j
       /\ \A i \in DOMAIN views' : views'[i].name \in OutputNames
       /\ nexec' # nexec =>
            LET name == view_name(file_name(active)) IN
            /\ output_view' \in DOMAIN views'
            /\ views'[output_view'].name = name
            /\ views'[output_view'].text \in {<<>>, <<chunk(nexec', "filename")>>}
            /\ IF \E i \in DOMAIN views : views[i].name = name
               THEN Len(views') = Len(views)
               ELSE Len(views') = Len(views) + 1]_vars

\* A second execution has gone to a view an earlier one made.
C9_ViewReused == nexec >= 2 /\ Len(views) = 1

(***************************************************************************)
(* C10.  Output goes to the view prepared for the execution.               *)
(***************************************************************************)
\* C10: each chunk of a child's output and its return-code line are appended to
\* the view run_command prepared for that execution, the return-code line once and
\* last, also when another execution is started before the first has finished.
C10_OutputToOwnView ==
    [][(LoopCommunicate \/ Remaining \/ ReturnCode) =>
        LET e == execs[1] IN
        /\ \A j \in DOMAIN views : j # e.view => views'[j] = views[j]
        /\ ReturnCode =>
              /\ views'[e.view].text = Append(views[e.view].text, chunk(e.id, "rc"))
              /\ \A j \in DOMAIN execs' : execs'[j].id # e.id]_vars

\* Another execution was started while the first had not finished, and the first
\* has since reported.
C10_Overlapped ==
    /\ nexec >= 2
    /\ \E j \in DOMAIN views :
          \E k \in DOMAIN views[j].text :
              views[j].text[k].kind = "rc" /\ views[j].text[k].src < nexec
                /\ \E m \in 1..k : views[j].text[m].src = nexec

====
